---- MODULE Spec2Model ----
(***************************************************************************)
(* A model of the MacOS backend of findshlibs (src/macos/mod.rs).          *)
(*                                                                         *)
(* Spec         : threads calling SharedLibrary::each concurrently with a  *)
(*                thread that loads and unloads images while it holds      *)
(*                DYLD_LOCK, as the lock's documentation asks.             *)
(* SpecLive     : Spec with threads that keep running.                     *)
(* SpecReentrant: Spec with callbacks that call SharedLibrary::each.       *)
(* SpecSections : for one image, the walk of tests::have_eh_frame_section: *)
(*                the flat sections() iterator run to exhaustion, then     *)
(*                segments() and each segment's sections(), and then       *)
(*                eh_frame_hdr() and eh_frame().                           *)
(* SpecRanges   : for one segment, section, EhFrame or EhFrameHdr, the     *)
(*                accessors name(), stated_virtual_memory_address() and    *)
(*                len(), and the image's virtual_memory_bias(), on targets *)
(*                whose usize has 32 or 64 bits.                           *)
(***************************************************************************)
EXTENDS Integers, Sequences, FiniteSets, TLC

(***************************************************************************)
(* Bounds of the model.                                                    *)
(***************************************************************************)
\* The loader's image table holds at most this many slots.
MaxImages == 3
\* An image holds at most this many load commands.
MaxCmds == 3
\* A segment holds at most this many sections.
MaxSects == 2

(***************************************************************************)
(* Program constants.                                                      *)
(***************************************************************************)
\* A 32-bit magic is written as its two 16-bit halves, high half first.
\* bindings::MH_MAGIC, 0xfeedface
MH_MAGIC == <<65261, 64206>>
\* bindings::MH_MAGIC_64, 0xfeedfacf
MH_MAGIC_64 == <<65261, 64207>>
\* A magic that is neither of the two: the byte-swapped 0xcffaedfe.
MH_CIGAM_64 == <<53242, 60926>>
\* bindings::LC_SEGMENT and bindings::LC_SEGMENT_64 (0x19)
LC_SEGMENT == 1
LC_SEGMENT_64 == 25
\* A load command that is no segment: LC_UUID (0x1b), 24 bytes long.
LC_UUID == 27
SizeofUuidCommand == 24
\* size_of of bindings::mach_header, mach_header_64, segment_command,
\* segment_command_64, section and section_64: what offset(1) adds.
SizeofMachHeader == 28
SizeofMachHeader64 == 32
SizeofSegmentCommand == 56
SizeofSegmentCommand64 == 72
SizeofSection == 68
SizeofSection64 == 80
\* The width of the sectname and segname fields.
NameWidth == 16

(***************************************************************************)
(* Raw pointers.  A header pointer is null or points at a header, of which *)
(* each reads only the magic.  A name pointer is null or points at the     *)
(* bytes of a C string, the terminating NUL included.                      *)
(***************************************************************************)
NullHeader == [null |-> TRUE, magic |-> <<0, 0>>]
HeaderAt(m) == [null |-> FALSE, magic |-> m]
NullName == [null |-> TRUE, bytes |-> <<>>]
NameAt(bs) == [null |-> FALSE, bytes |-> bs]

\* "/a", "/b" and "" as NUL-terminated byte strings.
PathA == <<47, 97, 0>>
PathB == <<47, 98, 0>>
PathEmpty == <<0>>

\* What one slot of the loader's table answers to the three accessors.
Slot(h, s, n) == [header |-> h, slide |-> s, name |-> n]

\* The slots the loader may hold: images of both widths, slots without a
\* header or with a foreign magic, recognized headers with a zero slide or
\* a null name, and an image whose path is the empty string.
SlotKinds ==
    { Slot(HeaderAt(MH_MAGIC), 4096, NameAt(PathA)),
      Slot(HeaderAt(MH_MAGIC_64), -4096, NameAt(PathB)),
      Slot(NullHeader, 0, NullName),
      Slot(HeaderAt(MH_CIGAM_64), 4096, NameAt(PathA)),
      Slot(HeaderAt(MH_MAGIC_64), 0, NameAt(PathB)),
      Slot(HeaderAt(MH_MAGIC), 4096, NullName),
      Slot(HeaderAt(MH_MAGIC_64), 4096, NameAt(PathEmpty)) }

Tables == UNION { [1..n -> SlotKinds] : n \in 0..MaxImages }

\* The threads that enumerate, and the one that loads and unloads.
Enumerators == {"t1", "t2"}
Mutator == "m"
NoThread == "none"

VARIABLES
    table,      \* the loader's image table, a sequence of slots
    lock,       \* DYLD_LOCK: [holder, poisoned]
    mpc,        \* the loading/unloading thread: "idle" or "locked"
    pc,         \* each enumerating thread's position in each
    count,      \* each's local count
    image_idx,  \* each's loop variable
    header,     \* each's local header (raw pointer)
    slide,      \* each's local slide
    name,       \* each's local name (raw pointer)
    visited,    \* the images handed to the callback by the current call
    rets,       \* what the callback answered, invocation by invocation
    snap,       \* the table as it was when the current call took the lock
    released,   \* how often the last call of the thread dropped its guard
    stack,      \* the calls of each whose callback is running a call of its own
    image,      \* the image walked: its header's width and its load commands
    wpc,        \* the walk's position
    all_sections,  \* the AllSectionsIter of the flat loop
    flat,       \* the sections the flat loop was given
    found_eh_frame_in_all_sections,
    segment_iter,  \* the SegmentIter of the nested loops
    segments_seen, \* the segments the outer loop was given
    section_iter,  \* the SectionIter of the inner loop
    nested,     \* the sections the inner loop was given
    found_eh_frame_in_segment_sections,
    eh_frame_hdr,  \* what SharedLibrary::eh_frame_hdr gave for the image
    eh_frame,   \* what SharedLibrary::eh_frame gave for the image
    usize_bits, \* the width of usize on the target: 32 or 64
    library,    \* the SharedLibrary whose ranges are asked
    range,      \* the Segment, Section, EhFrame or EhFrameHdr that is asked
    got_name,   \* what range.name() gave
    got_address,   \* what range.stated_virtual_memory_address() gave
    got_len,    \* what range.len() gave
    got_bias    \* what shlib.virtual_memory_bias() gave

eachVars == <<table, lock, mpc, pc, count, image_idx, header, slide, name,
              visited, rets, snap, released, stack>>

lookupVars == <<eh_frame_hdr, eh_frame>>

rangeVars == <<usize_bits, library, range, got_name, got_address, got_len,
               got_bias>>

accessorVars == <<lookupVars, rangeVars>>

walkVars == <<image, wpc, all_sections, flat, found_eh_frame_in_all_sections,
              segment_iter, segments_seen, section_iter, nested,
              found_eh_frame_in_segment_sections>>

vars == <<eachVars, walkVars, accessorVars>>

locals == <<count, image_idx, header, slide, name, visited, rets, snap>>

(***************************************************************************)
(* MachType::from_header_ptr and MachHeader::from_header_ptr.              *)
(***************************************************************************)
\* A bug: the 32-bit magic is forgotten.
MachType_from_header_ptr_only64(h) ==
    IF h.null THEN "None"
    ELSE IF h.magic = MH_MAGIC_64 THEN "Mach64"
    ELSE "None"

MachType_from_header_ptr(h) ==
    IF h.null THEN "None"
    ELSE IF h.magic = MH_MAGIC THEN "Mach32"
    ELSE IF h.magic = MH_MAGIC_64 THEN "Mach64"
    ELSE "None"

\* A bug: the two variants are taken for one another.
MachHeader_from_header_ptr_swapped(h) ==
    LET ty == MachType_from_header_ptr(h) IN
    IF ty = "Mach32" THEN "Header64"
    ELSE IF ty = "Mach64" THEN "Header32"
    ELSE "None"

MachHeader_from_header_ptr(h) ==
    LET ty == MachType_from_header_ptr(h) IN
    IF ty = "Mach32" THEN "Header32"
    ELSE IF ty = "Mach64" THEN "Header64"
    ELSE "None"

(***************************************************************************)
(* CStr::from_ptr followed by to_bytes: the bytes before the first NUL.    *)
(***************************************************************************)
RECURSIVE CStrBytes(_)
CStrBytes(bs) ==
    IF bs = <<>> \/ Head(bs) = 0 THEN <<>>
    ELSE <<Head(bs)>> \o CStrBytes(Tail(bs))

(***************************************************************************)
(* The loader's accessors.  An index outside the table answers null, zero  *)
(* and null.                                                               *)
(***************************************************************************)
dyld_image_count == Len(table)
dyld_get_image_header(i) ==
    IF i + 1 \in DOMAIN table THEN table[i + 1].header ELSE NullHeader
dyld_get_image_vmaddr_slide(i) ==
    IF i + 1 \in DOMAIN table THEN table[i + 1].slide ELSE 0
dyld_get_image_name(i) ==
    IF i + 1 \in DOMAIN table THEN table[i + 1].name ELSE NullName

(***************************************************************************)
(* SharedLibrary::new and SharedLibrary::name.                             *)
(***************************************************************************)
SharedLibrary_new(t, idx, hdr, sl, nm) ==
    [thread |-> t, idx |-> idx, header |-> hdr, slide |-> sl,
     name |-> CStrBytes(nm.bytes)]

SharedLibrary_name(shlib) == shlib.name

EachInit(tables) ==
    /\ table \in tables
    /\ lock = [holder |-> NoThread, poisoned |-> FALSE]
    /\ mpc = "idle"
    /\ pc = [t \in Enumerators |-> "idle"]
    /\ count = [t \in Enumerators |-> 0]
    /\ image_idx = [t \in Enumerators |-> 0]
    /\ header = [t \in Enumerators |-> NullHeader]
    /\ slide = [t \in Enumerators |-> 0]
    /\ name = [t \in Enumerators |-> NullName]
    /\ visited = [t \in Enumerators |-> <<>>]
    /\ rets = [t \in Enumerators |-> <<>>]
    /\ snap = [t \in Enumerators |-> <<>>]
    /\ released = [t \in Enumerators |-> 0]
    /\ stack = [t \in Enumerators |-> <<>>]

\* The locals of a call that has ended are gone.
DropLocals(t) ==
    /\ count' = [count EXCEPT ![t] = 0]
    /\ image_idx' = [image_idx EXCEPT ![t] = 0]
    /\ header' = [header EXCEPT ![t] = NullHeader]
    /\ slide' = [slide EXCEPT ![t] = 0]
    /\ name' = [name EXCEPT ![t] = NullName]
    /\ visited' = [visited EXCEPT ![t] = <<>>]
    /\ rets' = [rets EXCEPT ![t] = <<>>]
    /\ snap' = [snap EXCEPT ![t] = <<>>]

\* The locals of a call, kept while its callback runs a call of its own.
Frame(t) ==
    [count |-> count[t], image_idx |-> image_idx[t], header |-> header[t],
     slide |-> slide[t], name |-> name[t], visited |-> visited[t],
     rets |-> rets[t], snap |-> snap[t]]

\* The call that was kept goes on when the call its callback made has ended.
Resume(t) ==
    LET f == Head(stack[t]) IN
    /\ count' = [count EXCEPT ![t] = f.count]
    /\ image_idx' = [image_idx EXCEPT ![t] = f.image_idx]
    /\ header' = [header EXCEPT ![t] = f.header]
    /\ slide' = [slide EXCEPT ![t] = f.slide]
    /\ name' = [name EXCEPT ![t] = f.name]
    /\ visited' = [visited EXCEPT ![t] = f.visited]
    /\ rets' = [rets EXCEPT ![t] = f.rets]
    /\ snap' = [snap EXCEPT ![t] = f.snap]
    /\ stack' = [stack EXCEPT ![t] = Tail(stack[t])]

(***************************************************************************)
(* SharedLibrary::each, step by step.  The steps are the places where the  *)
(* call touches what other threads can see: the lock, the loader's table   *)
(* (one step per accessor call), and the callback, which runs the caller's *)
(* code with the guard alive.                                              *)
(***************************************************************************)

\* A thread enters each: it is about to evaluate DYLD_LOCK.lock().
EachCall(t) ==
    /\ pc[t] \in {"idle", "returned", "unwound"}
    /\ pc' = [pc EXCEPT ![t] = "lock"]
    /\ released' = [released EXCEPT ![t] = 0]
    /\ UNCHANGED <<table, lock, mpc, locals>>
    /\ UNCHANGED <<stack, walkVars, accessorVars>>

\* A bug: let _ = DYLD_LOCK.lock() drops the guard at once.
EachLock_dropped(t) ==
    /\ pc[t] = "lock"
    /\ lock.holder = NoThread
    /\ snap' = [snap EXCEPT ![t] = table]
    /\ pc' = [pc EXCEPT ![t] = "count"]
    /\ UNCHANGED <<table, lock, mpc, count, image_idx, header, slide, name,
                   visited, rets, released>>
    /\ UNCHANGED <<stack, walkVars, accessorVars>>

\* A bug: try_lock() in place of lock(), its failure ignored.
EachLock_try(t) ==
    /\ pc[t] = "lock"
    /\ lock' = IF lock.holder = NoThread THEN [lock EXCEPT !.holder = t] ELSE lock
    /\ snap' = [snap EXCEPT ![t] = table]
    /\ pc' = [pc EXCEPT ![t] = "count"]
    /\ UNCHANGED <<table, mpc, count, image_idx, header, slide, name,
                   visited, rets, released>>
    /\ UNCHANGED <<stack, walkVars, accessorVars>>

\* A bug: only the Ok of the LockResult is kept, so the guard that comes in
\* the Err of a poisoned mutex is dropped at once and the call runs unlocked.
EachLock_ok(t) ==
    /\ pc[t] = "lock"
    /\ lock.holder = NoThread
    /\ lock' = IF lock.poisoned THEN lock ELSE [lock EXCEPT !.holder = t]
    /\ snap' = [snap EXCEPT ![t] = table]
    /\ pc' = [pc EXCEPT ![t] = "count"]
    /\ UNCHANGED <<table, mpc, count, image_idx, header, slide, name,
                   visited, rets, released>>
    /\ UNCHANGED <<stack, walkVars, accessorVars>>

\* A bug: the lock lets the thread that holds it in again.
EachLock_reentrant(t) ==
    /\ pc[t] = "lock"
    /\ lock.holder \in {NoThread, t}
    /\ lock' = [lock EXCEPT !.holder = t]
    /\ snap' = [snap EXCEPT ![t] = table]
    /\ pc' = [pc EXCEPT ![t] = "count"]
    /\ UNCHANGED <<table, mpc, count, image_idx, header, slide, name,
                   visited, rets, released>>
    /\ UNCHANGED <<stack, walkVars, accessorVars>>

\* let _dyld_lock = DYLD_LOCK.lock(): blocks until the mutex is free.  The
\* LockResult is kept whole, so a poisoned mutex is taken just the same and
\* its guard lives in the Err until the end of the call.
EachLock(t) ==
    /\ pc[t] = "lock"
    /\ lock.holder = NoThread
    /\ lock' = [lock EXCEPT !.holder = t]
    /\ snap' = [snap EXCEPT ![t] = table]
    /\ pc' = [pc EXCEPT ![t] = "count"]
    /\ UNCHANGED <<table, mpc, count, image_idx, header, slide, name,
                   visited, rets, released>>
    /\ UNCHANGED <<stack, walkVars, accessorVars>>

\* let count = _dyld_image_count(); the loop starts at index 0.
EachCount(t) ==
    /\ pc[t] = "count"
    /\ count' = [count EXCEPT ![t] = dyld_image_count]
    /\ image_idx' = [image_idx EXCEPT ![t] = 0]
    /\ pc' = [pc EXCEPT ![t] = "loop"]
    /\ UNCHANGED <<table, lock, mpc, header, slide, name, visited, rets,
                   snap, released>>
    /\ UNCHANGED <<stack, walkVars, accessorVars>>

\* for image_idx in 0..count: the range is exhausted.
EachExhausted(t) ==
    /\ pc[t] = "loop"
    /\ ~(image_idx[t] < count[t])
    /\ pc' = [pc EXCEPT ![t] = "exit"]
    /\ UNCHANGED <<table, lock, mpc, locals, released>>
    /\ UNCHANGED <<stack, walkVars, accessorVars>>

\* _dyld_get_image_header(image_idx)
EachGetHeader(t) ==
    /\ pc[t] = "loop"
    /\ image_idx[t] < count[t]
    /\ header' = [header EXCEPT ![t] = dyld_get_image_header(image_idx[t])]
    /\ pc' = [pc EXCEPT ![t] = "slide"]
    /\ UNCHANGED <<table, lock, mpc, count, image_idx, slide, name, visited,
                   rets, snap, released>>
    /\ UNCHANGED <<stack, walkVars, accessorVars>>

\* _dyld_get_image_vmaddr_slide(image_idx)
EachGetSlide(t) ==
    /\ pc[t] = "slide"
    /\ slide' = [slide EXCEPT ![t] = dyld_get_image_vmaddr_slide(image_idx[t])]
    /\ pc' = [pc EXCEPT ![t] = "name"]
    /\ UNCHANGED <<table, lock, mpc, count, image_idx, header, name, visited,
                   rets, snap, released>>
    /\ UNCHANGED <<stack, walkVars, accessorVars>>

\* A bug: the name is asked for the next index.
EachGetName_next(t) ==
    /\ pc[t] = "name"
    /\ name' = [name EXCEPT ![t] = dyld_get_image_name(image_idx[t] + 1)]
    /\ pc' = [pc EXCEPT ![t] = "classify"]
    /\ UNCHANGED <<table, lock, mpc, count, image_idx, header, slide, visited,
                   rets, snap, released>>
    /\ UNCHANGED <<stack, walkVars, accessorVars>>

\* _dyld_get_image_name(image_idx)
EachGetName(t) ==
    /\ pc[t] = "name"
    /\ name' = [name EXCEPT ![t] = dyld_get_image_name(image_idx[t])]
    /\ pc' = [pc EXCEPT ![t] = "classify"]
    /\ UNCHANGED <<table, lock, mpc, count, image_idx, header, slide, visited,
                   rets, snap, released>>
    /\ UNCHANGED <<stack, walkVars, accessorVars>>

\* A bug: the loop variable does not advance.
NextIteration_stays(t) ==
    /\ UNCHANGED image_idx
    /\ header' = [header EXCEPT ![t] = NullHeader]
    /\ slide' = [slide EXCEPT ![t] = 0]
    /\ name' = [name EXCEPT ![t] = NullName]
    /\ pc' = [pc EXCEPT ![t] = "loop"]

\* The next iteration: the loop variable advances and the triple of the
\* iteration that ended is out of scope.
NextIteration(t) ==
    /\ image_idx' = [image_idx EXCEPT ![t] = image_idx[t] + 1]
    /\ header' = [header EXCEPT ![t] = NullHeader]
    /\ slide' = [slide EXCEPT ![t] = 0]
    /\ name' = [name EXCEPT ![t] = NullName]
    /\ pc' = [pc EXCEPT ![t] = "loop"]

\* A bug: the assertions are made before the header is classified.
EachClassify_assert_first(t) ==
    /\ pc[t] = "classify"
    /\ LET hdr == MachHeader_from_header_ptr(header[t]) IN
       IF slide[t] = 0 \/ name[t].null
       THEN /\ pc' = [pc EXCEPT ![t] = "unwinding"]
            /\ UNCHANGED <<image_idx, header, slide, name, visited>>
       ELSE IF hdr = "None"
       THEN /\ NextIteration(t)
            /\ UNCHANGED <<visited>>
       ELSE /\ visited' = [visited EXCEPT ![t] = Append(visited[t],
                   SharedLibrary_new(t, image_idx[t], hdr, slide[t], name[t]))]
            /\ pc' = [pc EXCEPT ![t] = "callback"]
            /\ UNCHANGED <<image_idx, header, slide, name>>
    /\ UNCHANGED <<table, lock, mpc, count, rets, snap, released>>
    /\ UNCHANGED <<stack, walkVars, accessorVars>>

\* A bug: the assertions are debug_assert!s, compiled out.
EachClassify_noassert(t) ==
    /\ pc[t] = "classify"
    /\ LET hdr == MachHeader_from_header_ptr(header[t]) IN
       IF hdr = "None"
       THEN /\ NextIteration(t)
            /\ UNCHANGED <<visited>>
       ELSE /\ visited' = [visited EXCEPT ![t] = Append(visited[t],
                   SharedLibrary_new(t, image_idx[t], hdr, slide[t], name[t]))]
            /\ pc' = [pc EXCEPT ![t] = "callback"]
            /\ UNCHANGED <<image_idx, header, slide, name>>
    /\ UNCHANGED <<table, lock, mpc, count, rets, snap, released>>
    /\ UNCHANGED <<stack, walkVars, accessorVars>>

\* if let Some(header) = MachHeader::from_header_ptr(header) { assert!(slide
\* != 0); assert!(name != null); ...; f(&shlib) }: an unrecognized slot is
\* passed over, a failed assertion panics, and otherwise the callback is
\* entered with the new SharedLibrary.
EachClassify(t) ==
    /\ pc[t] = "classify"
    /\ LET hdr == MachHeader_from_header_ptr(header[t]) IN
       IF hdr = "None"
       THEN /\ NextIteration(t)
            /\ UNCHANGED <<visited>>
       ELSE IF slide[t] = 0 \/ name[t].null
       THEN /\ pc' = [pc EXCEPT ![t] = "unwinding"]
            /\ UNCHANGED <<image_idx, header, slide, name, visited>>
       ELSE /\ visited' = [visited EXCEPT ![t] = Append(visited[t],
                   SharedLibrary_new(t, image_idx[t], hdr, slide[t], name[t]))]
            /\ pc' = [pc EXCEPT ![t] = "callback"]
            /\ UNCHANGED <<image_idx, header, slide, name>>
    /\ UNCHANGED <<table, lock, mpc, count, rets, snap, released>>
    /\ UNCHANGED <<stack, walkVars, accessorVars>>

\* A bug: the Break arm continues like the Continue arm.
EachCallback_nobreak(t, r) ==
    /\ pc[t] = "callback"
    /\ rets' = [rets EXCEPT ![t] = Append(rets[t], r)]
    /\ IF r \in {"Continue", "Break"} THEN NextIteration(t)
       ELSE /\ pc' = [pc EXCEPT ![t] = "unwinding"]
            /\ UNCHANGED <<image_idx, header, slide, name>>
    /\ UNCHANGED <<table, lock, mpc, count, visited, snap, released>>
    /\ UNCHANGED <<stack, walkVars, accessorVars>>

\* match f(&shlib).into(): the callback answers Continue or Break, or it
\* panics.
EachCallback(t, r) ==
    /\ pc[t] = "callback"
    /\ rets' = [rets EXCEPT ![t] = Append(rets[t], r)]
    /\ IF r = "Continue" THEN NextIteration(t)
       ELSE /\ pc' = [pc EXCEPT ![t] = IF r = "Break" THEN "exit" ELSE "unwinding"]
            /\ UNCHANGED <<image_idx, header, slide, name>>
    /\ UNCHANGED <<table, lock, mpc, count, visited, snap, released>>
    /\ UNCHANGED <<stack, walkVars, accessorVars>>

\* The end of the function body: _dyld_lock is dropped, which unlocks.
EachReturn(t) ==
    /\ pc[t] = "exit"
    /\ lock' = [lock EXCEPT !.holder = NoThread]
    /\ released' = [released EXCEPT ![t] = released[t] + 1]
    /\ IF stack[t] = <<>>
       THEN /\ pc' = [pc EXCEPT ![t] = "returned"]
            /\ DropLocals(t)
            /\ UNCHANGED stack
       ELSE /\ pc' = [pc EXCEPT ![t] = "callback"]
            /\ Resume(t)
    /\ UNCHANGED <<table, mpc>>
    /\ UNCHANGED <<walkVars, accessorVars>>

\* A bug: the lock is unlocked by hand at the end of the body only, so an
\* unwinding call leaves it locked.
EachUnwind_leak(t) ==
    /\ pc[t] = "unwinding"
    /\ pc' = [pc EXCEPT ![t] = "unwound"]
    /\ DropLocals(t)
    /\ UNCHANGED <<table, lock, mpc, released>>
    /\ UNCHANGED <<stack, walkVars, accessorVars>>

\* A panic unwinds out of each: _dyld_lock is dropped while panicking, which
\* poisons the mutex and unlocks it.
EachUnwind(t) ==
    /\ pc[t] = "unwinding"
    /\ lock' = [holder |-> NoThread, poisoned |-> TRUE]
    /\ released' = [released EXCEPT ![t] = released[t] + 1]
    /\ IF stack[t] = <<>>
       THEN /\ pc' = [pc EXCEPT ![t] = "unwound"]
            /\ DropLocals(t)
            /\ UNCHANGED stack
       ELSE /\ pc' = [pc EXCEPT ![t] = "unwinding"]
            /\ Resume(t)
    /\ UNCHANGED <<table, mpc>>
    /\ UNCHANGED <<walkVars, accessorVars>>

\* The callback calls SharedLibrary::each itself: the call it is running in
\* is kept, and the thread is about to evaluate DYLD_LOCK.lock() again.
EachReenter(t) ==
    /\ pc[t] = "callback"
    /\ stack' = [stack EXCEPT ![t] = <<Frame(t)>> \o stack[t]]
    /\ pc' = [pc EXCEPT ![t] = "lock"]
    /\ DropLocals(t)
    /\ UNCHANGED <<table, lock, mpc, released>>
    /\ UNCHANGED <<walkVars, accessorVars>>

(***************************************************************************)
(* The thread that adds and removes shared libraries.  It follows the      *)
(* documentation of DYLD_LOCK: it takes the lock around every change of    *)
(* the table.                                                              *)
(***************************************************************************)
MutLock ==
    /\ mpc = "idle"
    /\ lock.holder = NoThread
    /\ lock' = [lock EXCEPT !.holder = Mutator]
    /\ mpc' = "locked"
    /\ UNCHANGED <<table, pc, locals, released>>
    /\ UNCHANGED <<stack, walkVars, accessorVars>>

\* A library is loaded: the loader appends its slot.
MutLoad(s) ==
    /\ mpc = "locked"
    /\ Len(table) < MaxImages
    /\ table' = Append(table, s)
    /\ UNCHANGED <<lock, mpc, pc, locals, released>>
    /\ UNCHANGED <<stack, walkVars, accessorVars>>

\* A library is unloaded: its slot goes and the later slots move down.
MutUnload(i) ==
    /\ mpc = "locked"
    /\ i \in DOMAIN table
    /\ table' = [j \in 1..(Len(table) - 1) |->
                    IF j < i THEN table[j] ELSE table[j + 1]]
    /\ UNCHANGED <<lock, mpc, pc, locals, released>>
    /\ UNCHANGED <<stack, walkVars, accessorVars>>

MutUnlock ==
    /\ mpc = "locked"
    /\ lock' = [lock EXCEPT !.holder = NoThread]
    /\ mpc' = "idle"
    /\ UNCHANGED <<table, pc, locals, released>>
    /\ UNCHANGED <<stack, walkVars, accessorVars>>

EachNext ==
    \/ \E t \in Enumerators : EachCall(t)
    \/ \E t \in Enumerators : EachLock(t)
    \/ \E t \in Enumerators : EachCount(t)
    \/ \E t \in Enumerators : EachExhausted(t)
    \/ \E t \in Enumerators : EachGetHeader(t)
    \/ \E t \in Enumerators : EachGetSlide(t)
    \/ \E t \in Enumerators : EachGetName(t)
    \/ \E t \in Enumerators : EachClassify(t)
    \/ \E t \in Enumerators : \E r \in {"Continue", "Break", "Panic"} : EachCallback(t, r)
    \/ \E t \in Enumerators : EachReturn(t)
    \/ \E t \in Enumerators : EachUnwind(t)
    \/ MutLock
    \/ \E s \in SlotKinds : MutLoad(s)
    \/ \E i \in 1..MaxImages : MutUnload(i)
    \/ MutUnlock


(***************************************************************************)
(* The memory of one image.  Addresses are byte offsets from the image's   *)
(* header.  The load commands follow the header one after the other, and   *)
(* the section records of a segment follow its command record.             *)
(***************************************************************************)
None == [some |-> FALSE]
Some(x) == [some |-> TRUE, val |-> x]

Zeros(n) == IF n = 0 THEN <<>> ELSE [i \in 1..n |-> 0]
\* A name as it lies in a fixed-width field: padded with NULs.
Field(bs) == bs \o Zeros(NameWidth - Len(bs))

\* "__text", "__eh_frame", "__eh_frame_hdr" and "__TEXT" as bytes.
NameText == <<95, 95, 116, 101, 120, 116>>
EH_FRAME_NAME == <<95, 95, 101, 104, 95, 102, 114, 97, 109, 101>>
EH_FRAME_HDR_NAME == EH_FRAME_NAME \o <<95, 104, 100, 114>>
NameSegText == <<95, 95, 84, 69, 88, 84>>
\* "__gcc_except_tab" and "__SEGMENT_16BYTE": names as long as the field.
NameExceptTab ==
    <<95, 95, 103, 99, 99, 95, 101, 120, 99, 101, 112, 116, 95, 116, 97, 98>>
NameSegWide ==
    <<95, 95, 83, 69, 71, 77, 69, 78, 84, 95, 49, 54, 66, 89, 84, 69>>

(***************************************************************************)
(* The unsigned 64-bit values of the address and size fields, as four      *)
(* 16-bit limbs, the most significant first.  A 32-bit field holds a value *)
(* whose two upper limbs are 0.                                            *)
(***************************************************************************)
Values32 == { <<0, 0, 0, 0>>, <<0, 0, 0, 4096>>, <<0, 0, 65535, 65535>> }
Values64 ==
    Values32 \cup { <<0, 1, 0, 0>>, <<0, 1, 0, 4096>>,
                    <<65535, 65535, 65535, 65535>> }
PageSize == <<0, 0, 0, 4096>>

\* The bytes of a value in memory, the least significant first.
LeBytes(x, n) ==
    SubSeq(<<x[4] % 256, x[4] \div 256, x[3] % 256, x[3] \div 256,
             x[2] % 256, x[2] \div 256, x[1] % 256, x[1] \div 256>>, 1, n)

IsSegmentCmd(c) == c = LC_SEGMENT \/ c = LC_SEGMENT_64

\* The bytes a command and its section records take.
CmdExtent(d) ==
    IF d.cmd = LC_SEGMENT THEN SizeofSegmentCommand + d.nsects * SizeofSection
    ELSE IF d.cmd = LC_SEGMENT_64 THEN SizeofSegmentCommand64 + d.nsects * SizeofSection64
    ELSE SizeofUuidCommand

\* The load commands an image may hold: segments of both widths with 0 to
\* MaxSects sections, a command that is no segment, and a segment whose
\* declared size is 0.  Every segment is __TEXT, one page at 4096.
CmdKinds ==
    { [cmd |-> c, nsects |-> n,
       cmdsize |-> CmdExtent([cmd |-> c, nsects |-> n]),
       segname |-> NameSegText, vmaddr |-> PageSize, vmsize |-> PageSize] :
          c \in {LC_SEGMENT, LC_SEGMENT_64}, n \in 0..MaxSects }
    \cup { [cmd |-> LC_UUID, nsects |-> 0, cmdsize |-> SizeofUuidCommand,
            segname |-> <<>>, vmaddr |-> PageSize, vmsize |-> PageSize],
           [cmd |-> LC_SEGMENT_64, nsects |-> 1, cmdsize |-> 0,
            segname |-> NameSegText, vmaddr |-> PageSize, vmsize |-> PageSize] }

Images ==
    { [header |-> h, ncmds |-> Len(cs), cmds |-> cs] :
          h \in {"Header32", "Header64"},
          cs \in UNION { [1..n -> CmdKinds] : n \in 0..MaxCmds } }

HeaderSize(h) == IF h = "Header32" THEN SizeofMachHeader ELSE SizeofMachHeader64

\* Where the i-th load command of the image lies.
RECURSIVE CmdAddr(_, _)
CmdAddr(img, i) ==
    IF i = 1 THEN HeaderSize(img.header)
    ELSE CmdAddr(img, i - 1) + CmdExtent(img.cmds[i - 1])

\* The load command that lies at address a.
CommandAt(a) ==
    LET i == CHOOSE i \in 1..Len(image.cmds) : CmdAddr(image, i) = a
    IN image.cmds[i]

\* The name of the k-th section of a segment: 32-bit segments hold
\* __eh_frame_hdr, __eh_frame, __text, ...; 64-bit segments hold
\* __gcc_except_tab, __eh_frame, __eh_frame_hdr, __text, ...
SectNameOf(c, k) ==
    IF c = LC_SEGMENT
    THEN (IF k = 1 THEN EH_FRAME_HDR_NAME ELSE IF k = 2 THEN EH_FRAME_NAME ELSE NameText)
    ELSE (IF k = 1 THEN NameExceptTab ELSE IF k = 2 THEN EH_FRAME_NAME
          ELSE IF k = 3 THEN EH_FRAME_HDR_NAME ELSE NameText)

\* The section record that lies at address a.
SectionAt(a) ==
    LET at(i, k) ==
            LET d == image.cmds[i] IN
            /\ IsSegmentCmd(d.cmd)
            /\ k \in 1..d.nsects
            /\ a = CmdAddr(image, i)
                   + (IF d.cmd = LC_SEGMENT THEN SizeofSegmentCommand
                                            ELSE SizeofSegmentCommand64)
                   + (k - 1) * (IF d.cmd = LC_SEGMENT THEN SizeofSection
                                                      ELSE SizeofSection64)
        ik == CHOOSE p \in (1..Len(image.cmds)) \X (1..MaxSects) : at(p[1], p[2])
    IN [sectname |-> Field(SectNameOf(image.cmds[ik[1]].cmd, ik[2])),
        segname |-> Field(image.cmds[ik[1]].segname),
        addr |-> image.cmds[ik[1]].vmaddr,
        size |-> image.cmds[ik[1]].vmsize]

(***************************************************************************)
(* Section::name and Segment::name: CStr::from_ptr at the name field reads *)
(* up to the first NUL, in the field or in the memory that follows it: the *)
(* other fields of the record.  The fields after the size are 0.           *)
(***************************************************************************)
Section_name(sec) ==
    LET rec == SectionAt(sec.addr)
        w == IF sec.variant = "Section32" THEN 4 ELSE 8
    IN CStrBytes(rec.sectname \o rec.segname \o LeBytes(rec.addr, w)
                 \o LeBytes(rec.size, w) \o Zeros(4))

Segment_name(seg) ==
    LET rec == CommandAt(seg.addr)
        w == IF seg.variant = "Segment32" THEN 4 ELSE 8
    IN CStrBytes(Field(rec.segname) \o LeBytes(rec.vmaddr, w)
                 \o LeBytes(rec.vmsize, w) \o Zeros(4))

\* A bug: the cursor stays on the first section record.
SectionIter_next_stays(it) ==
    IF it.num_sections = 0 THEN [iter |-> it, item |-> None]
    ELSE IF it.variant = "SectionIter32"
    THEN [iter |-> [it EXCEPT !.num_sections = it.num_sections - 1],
          item |-> Some([variant |-> "Section32", addr |-> it.sections])]
    ELSE [iter |-> [it EXCEPT !.num_sections = it.num_sections - 1],
          item |-> Some([variant |-> "Section64", addr |-> it.sections])]

(***************************************************************************)
(* SectionIter::next: [iter, item].                                        *)
(***************************************************************************)
SectionIter_next(it) ==
    IF it.num_sections = 0 THEN [iter |-> it, item |-> None]
    ELSE IF it.variant = "SectionIter32"
    THEN [iter |-> [it EXCEPT !.num_sections = it.num_sections - 1,
                              !.sections = it.sections + SizeofSection],
          item |-> Some([variant |-> "Section32", addr |-> it.sections])]
    ELSE [iter |-> [it EXCEPT !.num_sections = it.num_sections - 1,
                              !.sections = it.sections + SizeofSection64],
          item |-> Some([variant |-> "Section64", addr |-> it.sections])]

(***************************************************************************)
(* Segment::sections.                                                      *)
(***************************************************************************)
Segment_sections(seg) ==
    IF seg.variant = "Segment32"
    THEN [variant |-> "SectionIter32",
          sections |-> seg.addr + SizeofSegmentCommand,
          num_sections |-> CommandAt(seg.addr).nsects]
    ELSE [variant |-> "SectionIter64",
          sections |-> seg.addr + SizeofSegmentCommand64,
          num_sections |-> CommandAt(seg.addr).nsects]

\* A bug: a command that is no segment leaves the cursor where it is.
RECURSIVE SegmentIter_next_skip_stays(_)
SegmentIter_next_skip_stays(it) ==
    IF ~(it.num_commands > 0) THEN [iter |-> it, item |-> None]
    ELSE LET this_command == CommandAt(it.commands)
             command_size == this_command.cmdsize
             advanced == [commands |-> it.commands + command_size,
                          num_commands |-> it.num_commands - 1]
         IN IF this_command.cmd = LC_SEGMENT
            THEN [iter |-> advanced,
                  item |-> Some([variant |-> "Segment32", addr |-> it.commands])]
            ELSE IF this_command.cmd = LC_SEGMENT_64
            THEN [iter |-> advanced,
                  item |-> Some([variant |-> "Segment64", addr |-> it.commands])]
            ELSE SegmentIter_next_skip_stays(
                     [it EXCEPT !.num_commands = it.num_commands - 1])

(***************************************************************************)
(* SegmentIter::next: [iter, item].                                        *)
(***************************************************************************)
RECURSIVE SegmentIter_next(_)
SegmentIter_next(it) ==
    IF ~(it.num_commands > 0) THEN [iter |-> it, item |-> None]
    ELSE LET this_command == CommandAt(it.commands)
             command_size == this_command.cmdsize
             advanced == [commands |-> it.commands + command_size,
                          num_commands |-> it.num_commands - 1]
         IN IF this_command.cmd = LC_SEGMENT
            THEN [iter |-> advanced,
                  item |-> Some([variant |-> "Segment32", addr |-> it.commands])]
            ELSE IF this_command.cmd = LC_SEGMENT_64
            THEN [iter |-> advanced,
                  item |-> Some([variant |-> "Segment64", addr |-> it.commands])]
            ELSE SegmentIter_next(advanced)

(***************************************************************************)
(* SharedLibrary::segments and SharedLibrary::sections.                    *)
(***************************************************************************)
SharedLibrary_segments(img) ==
    IF img.header = "Header32"
    THEN [commands |-> SizeofMachHeader, num_commands |-> img.ncmds]
    ELSE [commands |-> SizeofMachHeader64, num_commands |-> img.ncmds]

SharedLibrary_sections(img) ==
    [segments |-> SharedLibrary_segments(img), sections |-> None]

\* A bug: an inner walker that is exhausted, or that starts empty, ends the
\* flat iteration when it is met.
RECURSIVE AllSectionsIter_next_stops(_)
AllSectionsIter_next_stops(it) ==
    LET inner == IF it.sections.some THEN SectionIter_next(it.sections.val)
                 ELSE [iter |-> None, item |-> None]
    IN IF inner.item.some
       THEN [iter |-> [it EXCEPT !.sections = Some(inner.iter)], item |-> inner.item]
       ELSE LET seg == SegmentIter_next(it.segments) IN
            IF ~seg.item.some \/ CommandAt(seg.item.val.addr).nsects = 0
            THEN [iter |-> [segments |-> seg.iter, sections |-> None], item |-> None]
            ELSE AllSectionsIter_next_stops(
                     [segments |-> seg.iter,
                      sections |-> Some(Segment_sections(seg.item.val))])

\* A bug: every call moves the outer walker on before it asks the inner one.
AllSectionsIter_next_outer_first(it) ==
    LET seg == SegmentIter_next(it.segments) IN
    IF ~seg.item.some
    THEN [iter |-> [segments |-> seg.iter, sections |-> None], item |-> None]
    ELSE LET inner == SectionIter_next(Segment_sections(seg.item.val)) IN
         [iter |-> [segments |-> seg.iter, sections |-> Some(inner.iter)],
          item |-> inner.item]

(***************************************************************************)
(* AllSectionsIter::next: [iter, item].                                    *)
(***************************************************************************)
RECURSIVE AllSectionsIter_next(_)
AllSectionsIter_next(it) ==
    LET inner == IF it.sections.some THEN SectionIter_next(it.sections.val)
                 ELSE [iter |-> None, item |-> None]
    IN IF inner.item.some
       THEN [iter |-> [it EXCEPT !.sections = Some(inner.iter)], item |-> inner.item]
       ELSE LET seg == SegmentIter_next(it.segments) IN
            IF ~seg.item.some
            THEN [iter |-> [segments |-> seg.iter, sections |-> None], item |-> None]
            ELSE AllSectionsIter_next(
                     [segments |-> seg.iter,
                      sections |-> Some(Segment_sections(seg.item.val))])

(***************************************************************************)
(* SharedLibrary::eh_frame_hdr and SharedLibrary::eh_frame:                *)
(* self.sections().find(|s| s.name().to_bytes() == &NAME[..]).map(..).     *)
(***************************************************************************)
\* A bug: the name is compared on the length of the wanted name only.
NameIs_starts_with(sec, NAME) ==
    LET n == Section_name(sec) IN
    Len(n) >= Len(NAME) /\ SubSeq(n, 1, Len(NAME)) = NAME

\* The closure of find: the section's name is the wanted name, byte by byte.
NameIs(sec, NAME) == Section_name(sec) = NAME

\* Iterator::find on an AllSectionsIter.
RECURSIVE AllSectionsIter_find(_, _)
AllSectionsIter_find(it, NAME) ==
    LET r == AllSectionsIter_next(it) IN
    IF ~r.item.some THEN None
    ELSE IF NameIs(r.item.val, NAME) THEN r.item
    ELSE AllSectionsIter_find(r.iter, NAME)

EhFrameHdr(s) == [variant |-> "EhFrameHdr", section |-> s]
EhFrame(s) == [variant |-> "EhFrame", section |-> s]

SharedLibrary_eh_frame_hdr(img) ==
    LET s == AllSectionsIter_find(SharedLibrary_sections(img), EH_FRAME_HDR_NAME)
    IN IF s.some THEN Some(EhFrameHdr(s.val)) ELSE None

SharedLibrary_eh_frame(img) ==
    LET s == AllSectionsIter_find(SharedLibrary_sections(img), EH_FRAME_NAME)
    IN IF s.some THEN Some(EhFrame(s.val)) ELSE None

(***************************************************************************)
(* The accessors of NamedMemoryRange.  A call either returns a value or    *)
(* panics on a failed assertion.  usize has bits bits: a cast to usize     *)
(* keeps the low bits.                                                     *)
(***************************************************************************)
NotCalled == [called |-> FALSE]
Returns(v) == [called |-> TRUE, panicked |-> FALSE, val |-> v]
Panics == [called |-> TRUE, panicked |-> TRUE]

usize_MAX(bits) ==
    IF bits = 32 THEN <<0, 0, 65535, 65535>> ELSE <<65535, 65535, 65535, 65535>>

as_usize(x, bits) == IF bits = 32 THEN <<0, 0, x[3], x[4]>> ELSE x

Lt64(x, y) ==
    \E i \in 1..4 : x[i] < y[i] /\ \A j \in 1..(i - 1) : x[j] = y[j]

Le64(x, y) == x = y \/ Lt64(x, y)

Section_stated_virtual_memory_address(sec, bits) ==
    LET s == SectionAt(sec.addr) IN
    IF sec.variant = "Section32" THEN Returns(as_usize(s.addr, bits))
    ELSE IF Lt64(s.addr, usize_MAX(bits)) THEN Returns(as_usize(s.addr, bits))
    ELSE Panics

Section_len(sec, bits) ==
    LET s == SectionAt(sec.addr) IN Returns(as_usize(s.size, bits))

Segment_stated_virtual_memory_address(seg, bits) ==
    LET rec == CommandAt(seg.addr) IN
    IF seg.variant = "Segment32" THEN Returns(as_usize(rec.vmaddr, bits))
    ELSE IF Le64(rec.vmaddr, usize_MAX(bits)) THEN Returns(as_usize(rec.vmaddr, bits))
    ELSE Panics

Segment_len(seg, bits) ==
    LET rec == CommandAt(seg.addr) IN
    IF seg.variant = "Segment32" THEN Returns(as_usize(rec.vmsize, bits))
    ELSE IF Le64(rec.vmsize, usize_MAX(bits)) THEN Returns(as_usize(rec.vmsize, bits))
    ELSE Panics

\* EhFrame and EhFrameHdr hand every call to the section they wrap.
IsSegment(r) == r.variant \in {"Segment32", "Segment64"}
IsSection(r) == r.variant \in {"Section32", "Section64"}

NamedMemoryRange_name(r) ==
    IF IsSegment(r) THEN Segment_name(r)
    ELSE IF IsSection(r) THEN Section_name(r)
    ELSE Section_name(r.section)

NamedMemoryRange_stated_virtual_memory_address(r, bits) ==
    IF IsSegment(r) THEN Segment_stated_virtual_memory_address(r, bits)
    ELSE IF IsSection(r) THEN Section_stated_virtual_memory_address(r, bits)
    ELSE Section_stated_virtual_memory_address(r.section, bits)

NamedMemoryRange_len(r, bits) ==
    IF IsSegment(r) THEN Segment_len(r, bits)
    ELSE IF IsSection(r) THEN Section_len(r, bits)
    ELSE Section_len(r.section, bits)

SharedLibrary_virtual_memory_bias(lib) == lib.slide

(***************************************************************************)
(* The walk of one image, as the callback of tests::have_eh_frame_section  *)
(* makes it.  Each step is one call of an iterator's next.                 *)
(***************************************************************************)
NoSegmentIter == [commands |-> 0, num_commands |-> 0]
NoSectionIter == [variant |-> "SectionIter32", sections |-> 0, num_sections |-> 0]
NoImage == [header |-> "Header32", ncmds |-> 0, cmds |-> <<>>]

WalkInit(images, at) ==
    /\ image \in images
    /\ wpc = at
    /\ all_sections = [segments |-> NoSegmentIter, sections |-> None]
    /\ flat = <<>>
    /\ found_eh_frame_in_all_sections = FALSE
    /\ segment_iter = NoSegmentIter
    /\ segments_seen = <<>>
    /\ section_iter = NoSectionIter
    /\ nested = <<>>
    /\ found_eh_frame_in_segment_sections = FALSE
    /\ eh_frame_hdr = None
    /\ eh_frame = None

\* for section in shlib.sections(): the iterator is made.
WalkSections ==
    /\ wpc = "start"
    /\ all_sections' = SharedLibrary_sections(image)
    /\ wpc' = "flat"
    /\ UNCHANGED <<image, flat, found_eh_frame_in_all_sections, segment_iter,
                   segments_seen, section_iter, nested,
                   found_eh_frame_in_segment_sections>>
    /\ UNCHANGED <<eachVars, accessorVars>>

\* One turn of the flat loop; when it ends, shlib.segments() is made.
WalkFlatNext ==
    /\ wpc = "flat"
    /\ LET r == AllSectionsIter_next(all_sections) IN
       /\ all_sections' = r.iter
       /\ IF r.item.some
          THEN /\ flat' = Append(flat, r.item.val)
               /\ found_eh_frame_in_all_sections' =
                      (found_eh_frame_in_all_sections
                          \/ Section_name(r.item.val) = EH_FRAME_NAME)
               /\ UNCHANGED <<wpc, segment_iter>>
          ELSE /\ wpc' = "segments"
               /\ segment_iter' = SharedLibrary_segments(image)
               /\ UNCHANGED <<flat, found_eh_frame_in_all_sections>>
    /\ UNCHANGED <<image, segments_seen, section_iter, nested,
                   found_eh_frame_in_segment_sections>>
    /\ UNCHANGED <<eachVars, accessorVars>>

\* One turn of the outer loop: for segment in shlib.segments(), and the
\* segment's sections() is made.
WalkSegmentNext ==
    /\ wpc = "segments"
    /\ LET r == SegmentIter_next(segment_iter) IN
       /\ segment_iter' = r.iter
       /\ IF r.item.some
          THEN /\ segments_seen' = Append(segments_seen, r.item.val)
               /\ section_iter' = Segment_sections(r.item.val)
               /\ wpc' = "sections"
          ELSE /\ wpc' = "done"
               /\ UNCHANGED <<segments_seen, section_iter>>
    /\ UNCHANGED <<image, all_sections, flat, found_eh_frame_in_all_sections,
                   nested, found_eh_frame_in_segment_sections>>
    /\ UNCHANGED <<eachVars, accessorVars>>

\* One turn of the inner loop: for section in segment.sections().
WalkSectionNext ==
    /\ wpc = "sections"
    /\ LET r == SectionIter_next(section_iter) IN
       /\ section_iter' = r.iter
       /\ IF r.item.some
          THEN /\ nested' = Append(nested, r.item.val)
               /\ found_eh_frame_in_segment_sections' =
                      (found_eh_frame_in_segment_sections
                          \/ Section_name(r.item.val) = EH_FRAME_NAME)
               /\ UNCHANGED wpc
          ELSE /\ wpc' = "segments"
               /\ UNCHANGED <<nested, found_eh_frame_in_segment_sections>>
    /\ UNCHANGED <<image, all_sections, flat, found_eh_frame_in_all_sections,
                   segment_iter, segments_seen>>
    /\ UNCHANGED <<eachVars, accessorVars>>

\* shlib.eh_frame_hdr() on the image walked.
WalkEhFrameHdr ==
    /\ wpc = "done"
    /\ eh_frame_hdr' = SharedLibrary_eh_frame_hdr(image)
    /\ wpc' = "eh_frame"
    /\ UNCHANGED <<eh_frame, rangeVars>>
    /\ UNCHANGED <<image, all_sections, flat, found_eh_frame_in_all_sections,
                   segment_iter, segments_seen, section_iter, nested,
                   found_eh_frame_in_segment_sections>>
    /\ UNCHANGED eachVars

\* shlib.eh_frame() on the image walked.
WalkEhFrame ==
    /\ wpc = "eh_frame"
    /\ eh_frame' = SharedLibrary_eh_frame(image)
    /\ wpc' = "end"
    /\ UNCHANGED <<eh_frame_hdr, rangeVars>>
    /\ UNCHANGED <<image, all_sections, flat, found_eh_frame_in_all_sections,
                   segment_iter, segments_seen, section_iter, nested,
                   found_eh_frame_in_segment_sections>>
    /\ UNCHANGED eachVars

WalkNext ==
    \/ WalkSections
    \/ WalkFlatNext
    \/ WalkSegmentNext
    \/ WalkSectionNext
    \/ WalkEhFrameHdr
    \/ WalkEhFrame

(***************************************************************************)
(* The accessors asked of one range of one image, in any order.            *)
(***************************************************************************)
\* An image of one segment with one section; the section spans the segment.
RangeImage(c, n, a, z) ==
    [header |-> IF c = LC_SEGMENT THEN "Header32" ELSE "Header64",
     ncmds |-> 1,
     cmds |-> << [cmd |-> c, nsects |-> 1,
                  cmdsize |-> CmdExtent([cmd |-> c, nsects |-> 1]),
                  segname |-> n, vmaddr |-> a, vmsize |-> z] >>]

\* The segment's name, address and size take every value of their fields.
RangeImages ==
    { RangeImage(LC_SEGMENT, n, a, z) :
          n \in {NameSegText, NameSegWide}, a \in Values32, z \in Values32 }
    \cup { RangeImage(LC_SEGMENT_64, n, a, z) :
          n \in {NameSegText, NameSegWide}, a \in Values64, z \in Values64 }

\* The ranges of an image: its first segment, that segment's first section,
\* and that section as EhFrame and as EhFrameHdr.
RangesOf(img) ==
    LET seg == SegmentIter_next(SharedLibrary_segments(img)).item.val
        sec == SectionIter_next(Segment_sections(seg)).item.val
    IN {seg, sec, EhFrame(sec), EhFrameHdr(sec)}

NoRange == [variant |-> "Segment32", addr |-> 0]

RangeInit(on) ==
    /\ usize_bits \in (IF on THEN {32, 64} ELSE {64})
    /\ library \in { SharedLibrary_new("t1", 0, image.header, sl, NameAt(PathA)) :
                      sl \in (IF on THEN {4096, -4096} ELSE {4096}) }
    /\ range \in (IF on THEN RangesOf(image) ELSE {NoRange})
    /\ got_name = NotCalled
    /\ got_address = NotCalled
    /\ got_len = NotCalled
    /\ got_bias = NotCalled

RangeName ==
    /\ ~got_name.called
    /\ got_name' = Returns(NamedMemoryRange_name(range))
    /\ UNCHANGED <<usize_bits, library, range, got_address, got_len, got_bias>>
    /\ UNCHANGED <<eachVars, walkVars, lookupVars>>

RangeStatedVirtualMemoryAddress ==
    /\ ~got_address.called
    /\ got_address' = NamedMemoryRange_stated_virtual_memory_address(range, usize_bits)
    /\ UNCHANGED <<usize_bits, library, range, got_name, got_len, got_bias>>
    /\ UNCHANGED <<eachVars, walkVars, lookupVars>>

RangeLen ==
    /\ ~got_len.called
    /\ got_len' = NamedMemoryRange_len(range, usize_bits)
    /\ UNCHANGED <<usize_bits, library, range, got_name, got_address, got_bias>>
    /\ UNCHANGED <<eachVars, walkVars, lookupVars>>

RangeVirtualMemoryBias ==
    /\ ~got_bias.called
    /\ got_bias' = Returns(SharedLibrary_virtual_memory_bias(library))
    /\ UNCHANGED <<usize_bits, library, range, got_name, got_address, got_len>>
    /\ UNCHANGED <<eachVars, walkVars, lookupVars>>

RangeNext ==
    \/ RangeName
    \/ RangeStatedVirtualMemoryAddress
    \/ RangeLen
    \/ RangeVirtualMemoryBias

(***************************************************************************)
(* The specifications.                                                     *)
(***************************************************************************)
Init == EachInit(Tables) /\ WalkInit({NoImage}, "idle") /\ RangeInit(FALSE)

Next == EachNext

Spec == Init /\ [][Next]_vars

InitSections == EachInit({<<>>}) /\ WalkInit(Images, "start") /\ RangeInit(FALSE)

NextSections == WalkNext

SpecSections == InitSections /\ [][NextSections]_vars

\* Spec with callbacks that call SharedLibrary::each themselves.
NextReentrant ==
    \/ EachNext
    \/ \E t \in Enumerators : EachReenter(t)

SpecReentrant == Init /\ [][NextReentrant]_vars

\* A step of a thread that is inside each.
EachStep(t) ==
    \/ EachLock(t)
    \/ EachCount(t)
    \/ EachExhausted(t)
    \/ EachGetHeader(t)
    \/ EachGetSlide(t)
    \/ EachGetName(t)
    \/ EachClassify(t)
    \/ \E r \in {"Continue", "Break", "Panic"} : EachCallback(t, r)
    \/ EachReturn(t)
    \/ EachUnwind(t)

\* Spec with threads that go on running: a thread inside each that can take
\* a step takes one in the end, and so does every callback come to an end.
SpecLive == Init /\ [][Next]_vars /\ \A t \in Enumerators : WF_vars(EachStep(t))

InitRanges == EachInit({<<>>}) /\ WalkInit(RangeImages, "idle") /\ RangeInit(TRUE)

NextRanges == RangeNext

SpecRanges == InitRanges /\ [][NextRanges]_vars

(***************************************************************************)
(* Vocabulary of the properties, stated on the table itself and not by way *)
(* of the operators that model the code.                                   *)
(***************************************************************************)
\* The guard is alive: from the lock's acquisition to the end of the call.
HoldsGuard(t) ==
    pc[t] \in {"count", "loop", "slide", "name", "classify", "callback",
               "exit", "unwinding"}

\* The loop is over and the call is about to leave, normally or unwinding.
CallEnded(t) == pc[t] \in {"exit", "unwinding"}

IsRecognizedSlot(s) ==
    ~s.header.null /\ (s.header.magic = MH_MAGIC \/ s.header.magic = MH_MAGIC_64)

\* A recognized slot that each cannot accept.
IsFatalSlot(s) == IsRecognizedSlot(s) /\ (s.slide = 0 \/ s.name.null)

\* The 0-based indexes of a table, in order.
Indexes(tbl) == [i \in 1..Len(tbl) |-> i - 1]

\* The indexes of the recognized slots, ascending.
RecognizedIdx(tbl) ==
    LET ok(i) == IsRecognizedSlot(tbl[i + 1]) IN SelectSeq(Indexes(tbl), ok)

\* The index of the first fatal slot, Len(tbl) when there is none.
FirstFatal(tbl) ==
    IF \E i \in 1..Len(tbl) : IsFatalSlot(tbl[i])
    THEN (CHOOSE i \in 1..Len(tbl) :
              /\ IsFatalSlot(tbl[i])
              /\ \A j \in 1..(i - 1) : ~IsFatalSlot(tbl[j])) - 1
    ELSE Len(tbl)

\* The recognized slots in front of the first fatal one.
AcceptedIdx(tbl) ==
    LET early(i) == i < FirstFatal(tbl) IN SelectSeq(RecognizedIdx(tbl), early)

\* The slot indexes of the images the callback was invoked with.
VisitedIdx(t) == [k \in 1..Len(visited[t]) |-> visited[t][k].idx]

AllContinue(t) == \A k \in 1..Len(rets[t]) : rets[t][k] = "Continue"

IsPrefix(a, b) == Len(a) <= Len(b) /\ \A k \in 1..Len(a) : a[k] = b[k]

\* A callback that answers Continue k-1 times and Break the k-th time.
BreakAt(k) == [j \in 1..k |-> IF j < k THEN "Continue" ELSE "Break"]

(***************************************************************************)
(* C1.  As claimed: for any table, a call whose callback always answers    *)
(* Continue invokes the callback exactly once for each recognized slot, in *)
(* ascending index order, on the calling thread, and for no other slot.    *)
(* This fails on a table that holds a recognized slot with a zero slide or *)
(* a null name: the call panics there and the recognized slots after it    *)
(* are never visited.                                                      *)
(***************************************************************************)
C1_EveryRecognizedSlotVisited ==
    \A t \in Enumerators :
        (CallEnded(t) /\ AllContinue(t)) => VisitedIdx(t) = RecognizedIdx(snap[t])

(***************************************************************************)
(* C1, amended.  A call whose callback always answers Continue invokes the *)
(* callback exactly once for each recognized slot in front of the first    *)
(* recognized slot with a zero slide or a null name (for every recognized  *)
(* slot when there is none), in strictly ascending index order, on the     *)
(* calling thread, and never for another slot or twice for one slot.       *)
(***************************************************************************)
C1_RecognizedSlotsVisitedOnceInOrder ==
    \A t \in Enumerators :
        /\ (CallEnded(t) /\ AllContinue(t)) => VisitedIdx(t) = AcceptedIdx(snap[t])
        /\ \A j, k \in 1..Len(visited[t]) :
               j < k => visited[t][j].idx < visited[t][k].idx
        /\ \A k \in 1..Len(visited[t]) :
               /\ visited[t][k].thread = t
               /\ visited[t][k].idx + 1 \in DOMAIN snap[t]
               /\ IsRecognizedSlot(snap[t][visited[t][k].idx + 1])

\* A full enumeration has gone over a skipped slot and visited both widths.
C1_Witness ==
    \E t \in Enumerators :
        /\ pc[t] = "exit"
        /\ AllContinue(t)
        /\ Len(snap[t]) = 3
        /\ VisitedIdx(t) = <<0, 2>>
        /\ visited[t][1].header # visited[t][2].header

(***************************************************************************)
(* C2.  Every call of each releases DYLD_LOCK exactly once on every exit   *)
(* path (range exhausted, Break, panic unwinding); the lock is held by the *)
(* caller at every callback invocation and from its acquisition until the  *)
(* call exits.                                                             *)
(***************************************************************************)
C2_LockReleasedExactlyOnce ==
    \A t \in Enumerators :
        /\ HoldsGuard(t) => (lock.holder = t /\ released[t] = 0)
        /\ pc[t] = "lock" => released[t] = 0
        /\ pc[t] \in {"returned", "unwound"} =>
               (released[t] = 1 /\ lock.holder # t)

\* One call has returned and another has unwound, each having released once.
C2_Witness ==
    /\ pc["t1"] = "returned"
    /\ pc["t2"] = "unwound"
    /\ released["t1"] = 1
    /\ released["t2"] = 1
    /\ lock.holder = NoThread

(***************************************************************************)
(* C3.  With every loading or unloading thread holding DYLD_LOCK around    *)
(* its changes, the table does not change between a call's acquisition of  *)
(* the lock and its return: the count and every header, slide and name the *)
(* call has read are those of the table as it was at the acquisition, and  *)
(* the images visited so far are the recognized slots of that table among  *)
(* the indexes gone over, in that order.                                   *)
(***************************************************************************)
C3_SnapshotAtLockAcquisition ==
    \A t \in Enumerators :
        HoldsGuard(t) =>
            /\ table = snap[t]
            /\ pc[t] # "count" => count[t] = Len(snap[t])
            /\ pc[t] \in {"slide", "name", "classify", "callback"} =>
                   header[t] = snap[t][image_idx[t] + 1].header
            /\ pc[t] \in {"name", "classify", "callback"} =>
                   slide[t] = snap[t][image_idx[t] + 1].slide
            /\ pc[t] \in {"classify", "callback"} =>
                   name[t] = snap[t][image_idx[t] + 1].name
            /\ LET before(i) == i < image_idx[t]
                   upto(i) == i <= image_idx[t]
               IN /\ IsPrefix(SelectSeq(RecognizedIdx(snap[t]), before), VisitedIdx(t))
                  /\ IsPrefix(VisitedIdx(t), SelectSeq(RecognizedIdx(snap[t]), upto))
            /\ \A k \in 1..Len(visited[t]) :
                   visited[t][k].slide = snap[t][visited[t][k].idx + 1].slide

\* A call has gone over a table of three slots while the loader is idle.
C3_Witness ==
    \E t \in Enumerators :
        /\ pc[t] = "exit"
        /\ Len(snap[t]) = 3
        /\ Len(visited[t]) = 2
        /\ image_idx[t] = 3
        /\ mpc = "idle"

(***************************************************************************)
(* C4.  Concurrent calls of each are serialized by DYLD_LOCK: at most one  *)
(* thread is between taking the lock (and so reading the count) and        *)
(* returning, so the callbacks of two calls never interleave.              *)
(***************************************************************************)
C4_CallsSerialized ==
    \A t1, t2 \in Enumerators :
        (t1 # t2 /\ HoldsGuard(t1)) =>
            (~HoldsGuard(t2) /\ visited[t2] = <<>> /\ lock.holder = t1)

\* One call is inside its callback while the other waits for the lock.
C4_Witness ==
    /\ pc["t1"] = "callback"
    /\ Len(visited["t1"]) = 2
    /\ pc["t2"] = "lock"

(***************************************************************************)
(* C5.  As claimed: on a table with N recognized slots and any k in 1..N,  *)
(* a call whose callback answers Continue k-1 times and then Break invokes *)
(* the callback exactly k times, on the first k recognized slots in order, *)
(* and reads no slot after the Break.  This fails when one of the first k  *)
(* recognized slots has a zero slide or a null name: the call panics there *)
(* with fewer than k invocations made.                                     *)
(***************************************************************************)
C5_BreakAtKthRecognized ==
    \A t \in Enumerators :
        \A k \in 1..Len(RecognizedIdx(snap[t])) :
            (CallEnded(t) /\ IsPrefix(rets[t], BreakAt(k))) =>
                /\ rets[t] = BreakAt(k)
                /\ VisitedIdx(t) = SubSeq(RecognizedIdx(snap[t]), 1, k)

(***************************************************************************)
(* C5, amended.  On a table whose recognized slots in front of the first   *)
(* recognized slot with a zero slide or a null name number N, and for any  *)
(* k in 1..N, a call whose callback answers Continue k-1 times and then    *)
(* Break invokes the callback exactly k times, on the first k recognized   *)
(* slots in the order of a full enumeration, and leaves the loop at the    *)
(* k-th of them: no later slot is read and no later invocation is made.    *)
(***************************************************************************)
C5_BreakAtKthAccepted ==
    \A t \in Enumerators :
        \A k \in 1..Len(AcceptedIdx(snap[t])) :
            (CallEnded(t) /\ IsPrefix(rets[t], BreakAt(k))) =>
                /\ rets[t] = BreakAt(k)
                /\ VisitedIdx(t) = SubSeq(AcceptedIdx(snap[t]), 1, k)
                /\ pc[t] = "exit"
                /\ image_idx[t] = AcceptedIdx(snap[t])[k]
                /\ header[t] = snap[t][image_idx[t] + 1].header

\* A call over three recognized slots has broken at the second.
C5_Witness ==
    \E t \in Enumerators :
        /\ pc[t] = "exit"
        /\ Len(AcceptedIdx(snap[t])) = 3
        /\ rets[t] = BreakAt(2)
        /\ VisitedIdx(t) = <<0, 1>>

(***************************************************************************)
(* C6.  A slot whose header pointer is null or whose magic is neither      *)
(* MH_MAGIC nor MH_MAGIC_64 is passed over: whatever its slide and name    *)
(* are, the step that classifies it invokes no callback, does not panic,   *)
(* and goes on to the next slot index.                                     *)
(***************************************************************************)
C6_UnrecognizedSlotSkipped ==
    [][\A t \in Enumerators :
          (/\ pc[t] = "classify"
           /\ ~IsRecognizedSlot(Slot(header[t], slide[t], name[t]))
           /\ pc'[t] # "classify")
          => (/\ pc'[t] = "loop"
              /\ image_idx'[t] = image_idx[t] + 1
              /\ visited'[t] = visited[t]
              /\ rets'[t] = rets[t])]_vars

\* A null header with zero slide and null name and a foreign magic were both
\* passed over, and the call went on to visit the slot after them.
C6_Witness ==
    \E t \in Enumerators :
        /\ pc[t] = "callback"
        /\ VisitedIdx(t) = <<2>>
        /\ snap[t][1] = Slot(NullHeader, 0, NullName)
        /\ snap[t][2].header = HeaderAt(MH_CIGAM_64)

(***************************************************************************)
(* C7.  At a recognized slot whose slide is zero or whose name pointer is  *)
(* null the call panics: the loop never gets past such a slot, the         *)
(* callback is invoked neither for it nor for a later slot, the call does  *)
(* not reach its normal exit, and no image handed to the callback has a    *)
(* zero bias or an absent name.                                            *)
(***************************************************************************)
C7_FatalSlotAborts ==
    \A t \in Enumerators :
        (HoldsGuard(t) /\ pc[t] # "count") =>
            /\ \A i \in 1..Len(snap[t]) :
                   IsFatalSlot(snap[t][i]) =>
                       /\ image_idx[t] <= i - 1
                       /\ \A k \in 1..Len(visited[t]) : visited[t][k].idx < i - 1
                       /\ image_idx[t] = i - 1 =>
                              pc[t] \in {"loop", "slide", "name", "classify", "unwinding"}
                       /\ pc[t] = "exit" => Len(rets[t]) > 0 /\ rets[t][Len(rets[t])] = "Break"
            /\ \A k \in 1..Len(visited[t]) :
                   /\ visited[t][k].slide # 0
                   /\ ~snap[t][visited[t][k].idx + 1].name.null

\* A call is unwinding from a fatal slot that has a visited slot in front of
\* it and another slot after it.
C7_Witness ==
    \E t \in Enumerators :
        /\ pc[t] = "unwinding"
        /\ AllContinue(t)
        /\ image_idx[t] = 1
        /\ Len(snap[t]) = 3
        /\ IsFatalSlot(snap[t][2])
        /\ IsRecognizedSlot(snap[t][3])
        /\ VisitedIdx(t) = <<0>>

\* p is the C string that starts at the first of the bytes bs.
IsCStrOf(p, bs) ==
    /\ Len(p) < Len(bs)
    /\ \A i \in 1..Len(p) : p[i] = bs[i] /\ p[i] # 0
    /\ bs[Len(p) + 1] = 0

(***************************************************************************)
(* C8.  As claimed: for every image passed to the callback, name() is a    *)
(* non-empty byte string, and it is the path name read for the same slot.  *)
(* This fails for a slot whose name pointer points at an empty string:     *)
(* each rejects only the null pointer.                                     *)
(***************************************************************************)
C8_NameNonEmpty ==
    \A t \in Enumerators :
        \A k \in 1..Len(visited[t]) :
            /\ Len(SharedLibrary_name(visited[t][k])) >= 1
            /\ IsCStrOf(SharedLibrary_name(visited[t][k]),
                        snap[t][visited[t][k].idx + 1].name.bytes)

(***************************************************************************)
(* C8, amended.  For every image passed to the callback, name() is the C   *)
(* string at the name pointer read for the same slot index, and that       *)
(* pointer is not null; the string may be empty.                           *)
(***************************************************************************)
C8_NameIsSlotName ==
    \A t \in Enumerators :
        \A k \in 1..Len(visited[t]) :
            /\ ~snap[t][visited[t][k].idx + 1].name.null
            /\ IsCStrOf(SharedLibrary_name(visited[t][k]),
                        snap[t][visited[t][k].idx + 1].name.bytes)

\* The callback has been handed an image with a path and one with the empty
\* name.
C8_Witness ==
    \E t \in Enumerators :
        /\ Len(visited[t]) = 2
        /\ SharedLibrary_name(visited[t][1]) = <<47, 97>>
        /\ SharedLibrary_name(visited[t][2]) = <<>>

\* The section count of a segment, read from its command record.
NsectsOf(seg) == CommandAt(seg.addr).nsects

RECURSIVE SumNsects(_)
SumNsects(segs) ==
    IF segs = <<>> THEN 0 ELSE NsectsOf(Head(segs)) + SumNsects(Tail(segs))

\* Every load command of the image declares the size it takes.
WellFormed(img) ==
    \A i \in 1..Len(img.cmds) : img.cmds[i].cmdsize = CmdExtent(img.cmds[i])

\* The section records of the i-th load command, in address order.
SectionsOfCmd(img, i) ==
    LET d == img.cmds[i] IN
    IF d.cmd = LC_SEGMENT
    THEN [k \in 1..d.nsects |->
             [variant |-> "Section32",
              addr |-> CmdAddr(img, i) + SizeofSegmentCommand + (k - 1) * SizeofSection]]
    ELSE IF d.cmd = LC_SEGMENT_64
    THEN [k \in 1..d.nsects |->
             [variant |-> "Section64",
              addr |-> CmdAddr(img, i) + SizeofSegmentCommand64 + (k - 1) * SizeofSection64]]
    ELSE <<>>

\* The section records of the first n load commands, command by command.
RECURSIVE SectionsUpTo(_, _)
SectionsUpTo(img, n) ==
    IF n = 0 THEN <<>> ELSE SectionsUpTo(img, n - 1) \o SectionsOfCmd(img, n)

(***************************************************************************)
(* C9.  For every image, the number of items a fresh sections() iterator   *)
(* yields when run to exhaustion equals the sum of nsects over the         *)
(* segments that segments() yields.                                        *)
(***************************************************************************)
C9_FlatCountIsSumOfNsects ==
    wpc = "done" => Len(flat) = SumNsects(segments_seen)

\* Both walks of an image with three segments and five sections are over.
C9_Witness ==
    /\ wpc = "done"
    /\ Len(segments_seen) = 3
    /\ Len(flat) = 5
    /\ SumNsects(segments_seen) = 5

(***************************************************************************)
(* C10.  For every image, the flat sections() iterator yields the sequence *)
(* that walking segments() and each segment's sections() yields, in the    *)
(* same order; segments without sections yield nothing and do not end the  *)
(* flat iteration, so that on an image whose commands declare their sizes  *)
(* the flat sequence is every section record of every segment; and both    *)
(* scans for "__eh_frame" end with the same answer.                        *)
(***************************************************************************)
C10_FlatIsNestedWalk ==
    /\ wpc \in {"segments", "sections", "done"} => IsPrefix(nested, flat)
    /\ wpc = "done" =>
           /\ flat = nested
           /\ found_eh_frame_in_all_sections = found_eh_frame_in_segment_sections
           /\ WellFormed(image) => flat = SectionsUpTo(image, Len(image.cmds))

\* Both walks are over on an image whose first two segments have no section
\* and whose third has two, __eh_frame among them.
C10_Witness ==
    /\ wpc = "done"
    /\ Len(segments_seen) = 3
    /\ NsectsOf(segments_seen[1]) = 0
    /\ NsectsOf(segments_seen[2]) = 0
    /\ NsectsOf(segments_seen[3]) = 2
    /\ Len(flat) = 2
    /\ found_eh_frame_in_all_sections
    /\ found_eh_frame_in_segment_sections


(***************************************************************************)
(* C11.  eh_frame() gives the first section, in the order of the flat      *)
(* iteration, whose name field holds exactly "__eh_frame", and nothing     *)
(* when no section has that name; eh_frame_hdr() does the same for         *)
(* "__eh_frame_hdr".  The whole name is compared: a section named          *)
(* "__eh_frame_hdr" is never what eh_frame() gives.                        *)
(***************************************************************************)
\* The places in the flat order of the sections whose name field holds bs.
NamedAt(bs) ==
    { k \in 1..Len(flat) : SectionAt(flat[k].addr).sectname = Field(bs) }

FirstOf(S) == CHOOSE k \in S : \A j \in S : k <= j

C11_EhFrameIsFirstExactMatch ==
    wpc = "end" =>
        /\ eh_frame.some = (NamedAt(EH_FRAME_NAME) # {})
        /\ eh_frame.some =>
              eh_frame.val = EhFrame(flat[FirstOf(NamedAt(EH_FRAME_NAME))])
        /\ eh_frame_hdr.some = (NamedAt(EH_FRAME_HDR_NAME) # {})
        /\ eh_frame_hdr.some =>
              eh_frame_hdr.val = EhFrameHdr(flat[FirstOf(NamedAt(EH_FRAME_HDR_NAME))])

\* Both lookups made on an image whose first section is __eh_frame_hdr and
\* whose second is __eh_frame, and that has a later __eh_frame too.
C11_Witness ==
    /\ wpc = "end"
    /\ Len(flat) >= 4
    /\ eh_frame_hdr.some /\ eh_frame_hdr.val.section = flat[1]
    /\ eh_frame.some /\ eh_frame.val.section = flat[2]
    /\ \E k \in 3..Len(flat) : k \in NamedAt(EH_FRAME_NAME)


(***************************************************************************)
(* The fields of the record a range of SpecRanges looks at, read from the  *)
(* image's one segment; its one section spans it.                          *)
(***************************************************************************)
AddressField == image.cmds[1].vmaddr
SizeField == image.cmds[1].vmsize
NameField ==
    IF range.variant \in {"Segment32", "Segment64"}
    THEN Field(image.cmds[1].segname)
    ELSE Field(SectNameOf(image.cmds[1].cmd, 1))

\* The range is a 64-bit record, or wraps one.
Is64BitRange ==
    \/ range.variant \in {"Segment64", "Section64"}
    \/ /\ range.variant \in {"EhFrame", "EhFrameHdr"}
       /\ range.section.variant = "Section64"

\* The value can be held in a usize.
FitsUsize(x) == usize_bits = 64 \/ (x[1] = 0 /\ x[2] = 0)

(***************************************************************************)
(* C12.  Stated addresses are never adjusted for the load bias: whatever   *)
(* the slide, stated_virtual_memory_address() returns exactly the value of *)
(* the record's address field, len() exactly the value of its size field,  *)
(* and virtual_memory_bias() exactly the slide of the image.               *)
(***************************************************************************)
C12_StatedValuesAreTheFields ==
    /\ (got_address.called /\ ~got_address.panicked) =>
           got_address.val = AddressField
    /\ (got_len.called /\ ~got_len.panicked) => got_len.val = SizeField
    /\ got_bias.called => got_bias = Returns(library.slide)

(***************************************************************************)
(* C19.  name() of a Segment or Section returns only bytes of the record's *)
(* own name field, up to its first NUL, and never more bytes than the      *)
(* field is wide, also when no byte of the field is NUL.                   *)
(***************************************************************************)
C19_NameWithinField ==
    got_name.called =>
        /\ got_name.val = CStrBytes(NameField)
        /\ Len(got_name.val) <= NameWidth

(***************************************************************************)
(* C20.  A 64-bit segment or section whose address can be held in a usize  *)
(* gets it from stated_virtual_memory_address() without a panic, sections  *)
(* up to the same bound as segments; and an address or size of a 64-bit    *)
(* record that cannot be held in a usize makes the accessor panic and is   *)
(* never returned cut short.                                               *)
(***************************************************************************)
C20_WordWidthHandling ==
    Is64BitRange =>
        /\ got_address.called =>
              IF FitsUsize(AddressField)
              THEN got_address = Returns(AddressField)
              ELSE got_address = Panics
        /\ got_len.called =>
              (~FitsUsize(SizeField) => got_len = Panics)


(***************************************************************************)
(* The commands a SegmentIter goes over, told from the image's memory: the *)
(* first lies behind the header, the next one where the declared size of   *)
(* the one before leads.                                                   *)
(***************************************************************************)
RECURSIVE CursorAfter(_)
CursorAfter(k) ==
    IF k = 0 THEN HeaderSize(image.header)
    ELSE LET a == CursorAfter(k - 1) IN a + CommandAt(a).cmdsize

\* The addresses of the first k commands gone over.
ExaminedUpTo(k) == [j \in 1..k |-> CursorAfter(j - 1)]

\* The views of those of the addresses where a segment command lies.
SegmentsAmong(as) ==
    LET isSeg(a) == IsSegmentCmd(CommandAt(a).cmd)
        sel == SelectSeq(as, isSeg)
    IN [j \in 1..Len(sel) |->
           [variant |-> IF CommandAt(sel[j]).cmd = LC_SEGMENT THEN "Segment32"
                                                             ELSE "Segment64",
            addr |-> sel[j]]]

\* The addresses of the image's load commands, in the order of the list.
CmdAddrs(img) == [i \in 1..Len(img.cmds) |-> CmdAddr(img, i)]

(***************************************************************************)
(* C13.  A SegmentIter of an image with command count n goes over exactly  *)
(* n commands and yields those that are LC_SEGMENT, as Segment32, or       *)
(* LC_SEGMENT_64, as Segment64, in the order gone over, each view lying    *)
(* where the cursor stood when the command was read; after every command   *)
(* the cursor moves on by the size the command declares; and the iterator  *)
(* is exhausted when the counter is zero, after n commands even when a     *)
(* declared size is 0.  On an image whose commands declare their sizes the *)
(* commands gone over are the n commands of the list.                      *)
(***************************************************************************)
C13_SegmentWalk ==
    wpc \in {"segments", "sections", "done"} =>
        LET n == image.ncmds
            k == n - segment_iter.num_commands
        IN /\ k \in 0..n
           /\ segment_iter.commands = CursorAfter(k)
           /\ segments_seen = SegmentsAmong(ExaminedUpTo(k))
           /\ wpc = "sections" =>
                  /\ k >= 1
                  /\ segments_seen[Len(segments_seen)].addr = CursorAfter(k - 1)
           /\ wpc = "done" =>
                  /\ k = n
                  /\ WellFormed(image) => segments_seen = SegmentsAmong(CmdAddrs(image))

\* The walk is over on an image of three commands: one that is no segment,
\* then a segment whose declared size is 0, which is yielded twice.
C13_Witness ==
    /\ wpc = "done"
    /\ image.ncmds = 3
    /\ image.cmds[1].cmd = LC_UUID
    /\ IsSegmentCmd(image.cmds[2].cmd) /\ image.cmds[2].cmdsize = 0
    /\ Len(segments_seen) = 2
    /\ segments_seen[1] = segments_seen[2]
    /\ segment_iter.num_commands = 0


(***************************************************************************)
(* The section records of a segment, told from where the segment's command *)
(* lies and from the widths of the records of its variant.                 *)
(***************************************************************************)
SectionsBase(seg) ==
    seg.addr + (IF seg.variant = "Segment32" THEN SizeofSegmentCommand
                                             ELSE SizeofSegmentCommand64)

SectionWidth(seg) ==
    IF seg.variant = "Segment32" THEN SizeofSection ELSE SizeofSection64

\* The first m section records of the segment; the i-th, counted from 0,
\* lies i widths behind the end of the segment command.
FirstSections(seg, m) ==
    [j \in 1..m |->
        [variant |-> IF seg.variant = "Segment32" THEN "Section32" ELSE "Section64",
         addr |-> SectionsBase(seg) + (j - 1) * SectionWidth(seg)]]

\* All section records of the segments, segment by segment.
RECURSIVE SectionsOfAll(_)
SectionsOfAll(segs) ==
    IF segs = <<>> THEN <<>>
    ELSE FirstSections(Head(segs), NsectsOf(Head(segs))) \o SectionsOfAll(Tail(segs))

(***************************************************************************)
(* C14.  The SectionIter of a segment whose section count is n yields      *)
(* exactly n sections; the i-th, counted from 0, lies at the address just  *)
(* behind the segment's command record plus i times the width of a section *)
(* record of the segment's variant; the counter goes down by one with      *)
(* every section yielded, and nothing is yielded once it is zero: a        *)
(* segment with n = 0 yields nothing.                                      *)
(***************************************************************************)
C14_SectionWalk ==
    /\ wpc = "sections" =>
           LET cur == segments_seen[Len(segments_seen)]
               before == SubSeq(segments_seen, 1, Len(segments_seen) - 1)
               n == NsectsOf(cur)
               y == n - section_iter.num_sections
           IN /\ y \in 0..n
              /\ nested = SectionsOfAll(before) \o FirstSections(cur, y)
              /\ section_iter.sections = SectionsBase(cur) + y * SectionWidth(cur)
    /\ wpc \in {"segments", "done"} => nested = SectionsOfAll(segments_seen)

\* The inner loop has been given both sections of a 64-bit segment that
\* follows a segment without sections, and its iterator is exhausted.
C14_Witness ==
    /\ wpc = "sections"
    /\ Len(segments_seen) = 2
    /\ NsectsOf(segments_seen[1]) = 0
    /\ segments_seen[2].variant = "Segment64"
    /\ NsectsOf(segments_seen[2]) = 2
    /\ section_iter.num_sections = 0
    /\ Len(nested) = 2
    /\ nested[2].addr = nested[1].addr + SizeofSection64


(***************************************************************************)
(* C15.  A header pointer is taken for a 32-bit image exactly when its     *)
(* magic is MH_MAGIC and for a 64-bit image exactly when its magic is      *)
(* MH_MAGIC_64; a null pointer and every other magic are unrecognized and  *)
(* no image is made of them.  The variant found is the one segments()      *)
(* goes by: its cursor starts one header of that variant's width behind    *)
(* the header, and its counter is the header's ncmds.                      *)
(***************************************************************************)
C15_HeaderClassified ==
    \A t \in Enumerators : \A k \in 1..Len(visited[t]) :
        LET v == visited[t][k]
            h == snap[t][v.idx + 1].header
        IN /\ ~h.null
           /\ h.magic \in {MH_MAGIC, MH_MAGIC_64}
           /\ v.header \in {"Header32", "Header64"}
           /\ (v.header = "Header32") = (h.magic = MH_MAGIC)
           /\ (v.header = "Header64") = (h.magic = MH_MAGIC_64)
           /\ \A n \in 0..MaxCmds :
                  SharedLibrary_segments([header |-> v.header, ncmds |-> n]) =
                      [commands |-> IF h.magic = MH_MAGIC THEN SizeofMachHeader
                                                          ELSE SizeofMachHeader64,
                       num_commands |-> n]

\* A call went over a table that holds a header with another magic, a
\* 32-bit header and a 64-bit header, and made images of the last two.
C15_Witness ==
    \E t \in Enumerators :
        /\ pc[t] = "exit"
        /\ Len(snap[t]) = 3
        /\ ~snap[t][1].header.null /\ snap[t][1].header.magic = MH_CIGAM_64
        /\ Len(visited[t]) = 2
        /\ visited[t][1].idx = 1 /\ visited[t][1].header = "Header32"
        /\ visited[t][2].idx = 2 /\ visited[t][2].header = "Header64"


(***************************************************************************)
(* C16.  DYLD_LOCK is not re-entrant: when the callback of a call of each  *)
(* calls each on the same thread, the inner call never gets the lock while *)
(* the outer call holds it.  The inner call stays at its acquisition and   *)
(* never invokes its callback, and the outer call never returns: the       *)
(* thread stays where it is for ever.                                      *)
(***************************************************************************)
C16_ReentrantCallDeadlocks ==
    [][\A t \in Enumerators :
          /\ stack'[t] # <<>> =>
                /\ pc'[t] = "lock"
                /\ lock'.holder = t
                /\ visited'[t] = <<>> /\ rets'[t] = <<>>
          /\ stack[t] # <<>> => stack'[t] = stack[t]]_vars

\* A callback that was invoked for the second image called each, and the
\* other thread has entered each since: both wait for the lock that the
\* first thread holds.
C16_Witness ==
    \E t \in Enumerators : \E u \in Enumerators \ {t} :
        /\ stack[t] # <<>>
        /\ Len(stack[t][1].visited) = 2
        /\ pc[t] = "lock"
        /\ lock.holder = t
        /\ pc[u] = "lock"

(***************************************************************************)
(* C17.  Once a call of each has taken the lock and read the image count   *)
(* c, it comes to its end, provided every callback invocation comes back:  *)
(* it goes over at most c slots and invokes the callback at most c times.  *)
(* The count is read once: the bound of the loop does not change during    *)
(* the call.  The call returns, unless a callback panics or an assertion   *)
(* on a slot fails; then it ends unwinding.                                *)
(***************************************************************************)
\* The count is read and the loop is running.
InLoop(t) == pc[t] \in {"loop", "slide", "name", "classify", "callback"}

\* The slots the loop has begun to go over: those before the loop variable,
\* and the one at it unless the loop stands at its head or is exhausted.
SlotsBegun(t) ==
    IF \/ pc[t] = "loop"
       \/ /\ pc[t] = "exit"
          /\ (rets[t] = <<>> \/ rets[t][Len(rets[t])] # "Break")
    THEN image_idx[t] ELSE image_idx[t] + 1

C17_LoopBounded ==
    \A t \in Enumerators : (InLoop(t) \/ CallEnded(t)) =>
        /\ count[t] = Len(snap[t])
        /\ SlotsBegun(t) <= count[t]
        /\ Len(rets[t]) <= Len(visited[t])
        /\ Len(visited[t]) <= SlotsBegun(t)
        /\ pc[t] = "unwinding" =>
              \/ rets[t] # <<>> /\ rets[t][Len(rets[t])] = "Panic"
              \/ /\ image_idx[t] < Len(snap[t])
                 /\ IsFatalSlot(snap[t][image_idx[t] + 1])

C17_CountReadOnce ==
    \A t \in Enumerators : InLoop(t) =>
        /\ count'[t] = count[t]
        /\ image_idx'[t] >= image_idx[t]
        /\ pc'[t] = "loop" /\ pc[t] # "loop" => image_idx'[t] = image_idx[t] + 1

C18_PoisonedLockStillTaken ==
    lock.poisoned =>
        \A t \in Enumerators :
            /\ HoldsGuard(t) =>
                  /\ lock.holder = t
                  /\ table = snap[t]
                  /\ mpc # "locked"
                  /\ \A u \in Enumerators \ {t} : ~HoldsGuard(u)
            /\ ~HoldsGuard(t) => lock.holder # t
            /\ (pc[t] = "lock" /\ lock.holder = NoThread) => ENABLED EachLock(t)
            /\ (pc[t] = "exit" /\ AllContinue(t)) =>
                  VisitedIdx(t) = AcceptedIdx(snap[t])

\* A call has ended in a panic; after it a thread took the lock, visited two
\* images and is about to return, while the other thread waits for the lock.
C18_Witness ==
    \E t \in Enumerators : \E u \in Enumerators \ {t} :
        /\ lock.poisoned
        /\ pc[t] = "exit"
        /\ AllContinue(t)
        /\ Len(visited[t]) = 2
        /\ lock.holder = t
        /\ pc[u] = "lock"
        /\ released[u] = 0

====
